---- MODULE Spec2Model ----
(***************************************************************************)
(* Model of pkg/comfyui/client.go: Client.Generate (submit a workflow to   *)
(* ComfyUI, poll /history/<prompt_id>, return the /view URL of the first   *)
(* image found) and Client.buildWorkflow (the fixed Flux text-to-image     *)
(* graph).                                                                 *)
(*                                                                         *)
(* Strings that the code slices or concatenates (URLs, error messages) are *)
(* sequences of tokens; a token is one character ("/") or an unsplit run   *)
(* of characters ("http://h", "/prompt").  CTL stands for an ASCII control *)
(* character, which net/url refuses to parse.                              *)
(*                                                                         *)
(* int64 values (Seed, the clock in nanoseconds) exceed the range of the   *)
(* model checker's integers; they are kept exactly, in sign-magnitude      *)
(* form with three limbs of base 10^7:                                     *)
(*      value = sign * (hi * 10^14 + mid * 10^7 + lo)                      *)
(***************************************************************************)
EXTENDS Integers, Sequences, FiniteSets, TLC

VARIABLES
    c,          \* the receiver *Client: [BaseURL, ClientID]
    arg,        \* the Params value as the caller passed it (before the call)
    first,      \* the Params value before the first call on the object
    calls,      \* number of calls started with this client and Params object
    p,          \* *p, the caller's Params object, written by Generate
    now,        \* the reading time.Now().UnixNano() took, NoTime before it
    pc,         \* position of the call inside Generate
    workflow,   \* local workflow (line 50)
    baseURL,    \* local baseURL (lines 51-57)
    clientID,   \* local clientID (lines 58-61)
    postURL,    \* URL of the submission request
    postBody,   \* body of the submission request
    resp,       \* what hc.Do returned for the submission, None before it
    promptID,   \* submitResp.PromptID
    i,          \* loop variable of the polling loop
    histURL,    \* URL of the latest history request
    histResp,   \* what hc.Do returned in the current iteration, None outside it
    pattern,    \* what all finished (continued) poll attempts had in common
    posts,      \* number of POST requests issued
    gets,       \* number of GET requests issued
    sleeps,     \* number of time.Sleep calls made
    imageURL,   \* named result imageURL
    err,        \* named result err
    other       \* a second call on the same client that overlaps this one

vars == <<c, arg, first, calls, p, now, pc, workflow, baseURL, clientID, postURL, postBody,
          resp, promptID, i, histURL, histResp, pattern, posts, gets,
          sleeps, imageURL, err, other>>

----------------------------------------------------------------------------
(* Program constants *)

DefaultWidth == 1080
DefaultHeight == 1920
DefaultSteps == 25
DefaultCFG == 1
MaxPolls == 300
StatusOK == 200

DefaultClientID == "huobao_drama"

----------------------------------------------------------------------------
(* int64 in sign-magnitude limbs *)

I64(sign, hi, mid, lo) == [sign |-> sign, hi |-> hi, mid |-> mid, lo |-> lo]

Zero64 == I64(1, 0, 0, 0)

IsZero64(n) == n.hi = 0 /\ n.mid = 0 /\ n.lo = 0

\* n % 100000000000000 with Go's truncated remainder: the result has the
\* sign of the dividend and the magnitude |n| mod 10^14 (10^14 = LimbBase^2).
\* Faulty variant: the remainder is not taken.
RemSeedModNoMod(n) == n
RemSeedMod(n) ==
    IF n.mid = 0 /\ n.lo = 0 THEN Zero64 ELSE I64(n.sign, 0, n.mid, n.lo)

\* n < 10^14 as signed integers
Below1e14(n) == n.sign = -1 \/ n.hi = 0

----------------------------------------------------------------------------
(* Strings as token sequences *)

CTL == "<ctl>"

\* baseURL[len(baseURL)-1] == '/'  /  baseURL[:len(baseURL)-1]
\* Faulty variant: the trailing slash is kept.
StripNothing(s) == s
StripSlash(s) ==
    IF s[Len(s)] = "/" THEN SubSeq(s, 1, Len(s) - 1) ELSE s

\* url.Parse inside http.NewRequest fails on a control character
NewRequestOK(url) == \A k \in 1..Len(url) : url[k] # CTL

NilError == <<>>

Option(x) == <<x>>
None == <<>>

----------------------------------------------------------------------------
(* buildWorkflow (lines 134-198).  A workflow maps node ids to              *)
(* [inputs, class_type]; input values are tagged by their Go type.          *)

StrVal(s) == [str |-> s]
IntVal(n) == [int |-> n]
FloatVal(x) == [float |-> x]
Int64Val(n) == [int64 |-> n]
Ref(node, out) == [node |-> node, out |-> out]

\* Faulty variant: one credential is taken for both.
HasCredentialsEither(baiduAppID, baiduAppKey) == baiduAppID # "" \/ baiduAppKey # ""
HasCredentials(baiduAppID, baiduAppKey) == baiduAppID # "" /\ baiduAppKey # ""

inputs24(prompt, baiduAppID, baiduAppKey) ==
    LET fixed == [from_translate |-> StrVal("auto"),
                  to_translate |-> StrVal("en"),
                  text |-> StrVal(prompt)]
    IN  IF HasCredentials(baiduAppID, baiduAppKey)
        THEN fixed @@ ("baidu_appid" :> StrVal(baiduAppID))
                   @@ ("baidu_appkey" :> StrVal(baiduAppKey))
        ELSE fixed

node24(prompt, baiduAppID, baiduAppKey) ==
    [inputs |-> inputs24(prompt, baiduAppID, baiduAppKey),
     class_type |-> "BaiduTranslateNode"]

buildWorkflow(prompt, width, height, steps, cfg, seed, baiduAppID, baiduAppKey) ==
    ("4" :> [inputs |-> [conditioning |-> Ref("21", 0)],
             class_type |-> "ConditioningZeroOut"])
    @@ ("5" :> [inputs |-> [samples |-> Ref("15", 0), vae |-> Ref("19", 0)],
                class_type |-> "VAEDecode"])
    @@ ("8" :> [inputs |-> [filename_prefix |-> StrVal("comfy_ui_generated"),
                            images |-> Ref("5", 0)],
                class_type |-> "SaveImage"])
    @@ ("15" :> [inputs |-> [seed |-> Int64Val(seed), steps |-> IntVal(steps),
                             cfg |-> FloatVal(cfg),
                             sampler_name |-> StrVal("euler"),
                             scheduler |-> StrVal("beta"), denoise |-> IntVal(1),
                             model |-> Ref("17", 0), positive |-> Ref("21", 0),
                             negative |-> Ref("4", 0),
                             latent_image |-> Ref("20", 0)],
                 class_type |-> "KSampler"])
    @@ ("17" :> [inputs |-> [unet_name |-> StrVal("flux\\flux1-dev.safetensors"),
                             weight_dtype |-> StrVal("fp8_e4m3fn")],
                 class_type |-> "UNETLoader"])
    @@ ("18" :> [inputs |-> [clip_name1 |-> StrVal("flux\\t5xxl_fp8_e4m3fn.safetensors"),
                             clip_name2 |-> StrVal("flux\\clip_l.safetensors"),
                             type |-> StrVal("flux"), device |-> StrVal("default")],
                 class_type |-> "DualCLIPLoader"])
    @@ ("19" :> [inputs |-> [vae_name |-> StrVal("flux\\ae.safetensors")],
                 class_type |-> "VAELoader"])
    @@ ("20" :> [inputs |-> [width |-> IntVal(width), height |-> IntVal(height),
                             batch_size |-> IntVal(1)],
                 class_type |-> "EmptyLatentImage"])
    @@ ("21" :> [inputs |-> [text |-> Ref("24", 0), clip |-> Ref("18", 0)],
                 class_type |-> "CLIPTextEncode"])
    @@ ("24" :> node24(prompt, baiduAppID, baiduAppKey))

----------------------------------------------------------------------------
(* Inputs: parameters, clients and clock readings *)

Params(prompt, width, height, steps, cfg, seed, appID, appKey) ==
    [Prompt |-> prompt, Width |-> width, Height |-> height, Steps |-> steps,
     CFG |-> cfg, Seed |-> seed,
     BaiduTranslateAppID |-> appID, BaiduTranslateAppKey |-> appKey]

\* Seeds a caller may pass: unset, small positive, negative, math.MaxInt64.
SeedValues ==
    {Zero64, I64(1, 0, 0, 42), I64(-1, 0, 0, 5), I64(1, 92233, 7203685, 4775807)}

\* Readings of time.Now().UnixNano(): an ordinary instant, an instant with
\* zero middle limb, an exact multiple of 10^14 ns (2027-01-15T08:00:00Z),
\* and a clock set before 1970.
ClockReadings ==
    {I64(1, 17940, 1234567, 7654321), I64(1, 17940, 0, 5),
     I64(1, 18000, 0, 0), I64(-1, 3, 0, 9)}

\* Every combination of unset, negative and positive numeric parameters and
\* of absent and present credentials.
MaxParam == 2

NumericValues == -1..MaxParam

AllParams ==
    {Params("a cat", w, h, s, g, seed, id, key) :
        w \in NumericValues, h \in NumericValues, s \in NumericValues,
        g \in NumericValues, seed \in SeedValues,
        id \in {"", "appid"}, key \in {"", "appkey"}}

ParamsUnset == Params("a cat", 0, 0, 0, 0, Zero64, "", "")
ParamsSet == Params("a cat", 640, 768, 30, 7, I64(1, 0, 0, 42), "appid", "appkey")

Client(base, id) == [BaseURL |-> base, ClientID |-> id]

\* Calls of the full model: the base endpoint is absent, plain, ends in one
\* or two slashes, or holds a control character.
Calls ==
    {[c |-> Client(<<>>, ""), p |-> ParamsUnset],
     [c |-> Client(<<"http://h">>, ""), p |-> ParamsSet],
     [c |-> Client(<<"http://h", "/">>, "me"), p |-> ParamsSet],
     [c |-> Client(<<"http://h", "/", "/">>, ""), p |-> ParamsSet],
     [c |-> Client(<<"http://h", CTL>>, "me"), p |-> ParamsUnset]}

\* Calls of the parameter model: one client, every parameter combination.
ParamCalls ==
    {[c |-> Client(<<"http://h">>, ""), p |-> q] : q \in AllParams}

----------------------------------------------------------------------------
(* State after construction: the call has not started *)

InitWith(call) ==
    /\ c = call.c
    /\ arg = call.p
    /\ first = call.p
    /\ calls = 1
    /\ p = call.p
    /\ now = None
    /\ pc = "start"
    /\ workflow = None
    /\ baseURL = <<>>
    /\ clientID = ""
    /\ postURL = None
    /\ postBody = None
    /\ resp = None
    /\ promptID = ""
    /\ i = 0
    /\ histURL = None
    /\ histResp = None
    /\ pattern = "none"
    /\ posts = 0
    /\ gets = 0
    /\ sleeps = 0
    /\ imageURL = <<>>
    /\ err = NilError

\* The second call: its position, its requests and its results.  Its loop
\* counter is not kept, so it may time out after any number of polls.
OtherCall(pos, nposts, id, url, img, e) ==
    [pc |-> pos, posts |-> nposts, promptID |-> id, histURL |-> url,
     imageURL |-> img, err |-> e]

OtherIdle == OtherCall("idle", 0, "", None, <<>>, NilError)

Init == (\E call \in Calls : InitWith(call)) /\ other = OtherIdle

InitParams == (\E call \in ParamCalls : InitWith(call)) /\ other = OtherIdle

\* return imageURL, err
Return(url, e) ==
    /\ pc' = "done"
    /\ imageURL' = url
    /\ err' = e

----------------------------------------------------------------------------
(* Generate, lines 34-48: defaults written into *p *)

\* Faulty variant: zero is not taken as unset.
DefaultIfNegative(v, d) == IF v < 0 THEN d ELSE v
DefaultIfNotPositive(v, d) == IF v <= 0 THEN d ELSE v

\* Faulty variant: a seed passed in is overwritten.
SeedAlwaysFromClock(seed, t) == RemSeedMod(t)
SeedOrClock(seed, t) == IF IsZero64(seed) THEN RemSeedMod(t) ELSE seed

Normalize ==
    /\ pc = "start"
    /\ \E t \in ClockReadings :
         /\ p' = [p EXCEPT !.Width = DefaultIfNotPositive(p.Width, DefaultWidth),
                           !.Height = DefaultIfNotPositive(p.Height, DefaultHeight),
                           !.Steps = DefaultIfNotPositive(p.Steps, DefaultSteps),
                           !.CFG = DefaultIfNotPositive(p.CFG, DefaultCFG),
                           !.Seed = SeedOrClock(p.Seed, t)]
         \* time.Now() is read only when the seed is unset
         /\ now' = IF IsZero64(p.Seed) THEN Option(t) ELSE None
    /\ pc' = "normalized"
    /\ UNCHANGED <<other, c, arg, first, calls, workflow, baseURL, clientID, postURL, postBody, resp,
                   promptID, i, histURL, histResp, pattern, posts,
                   gets, sleeps, imageURL, err>>

(* line 50 *)
Build ==
    /\ pc = "normalized"
    /\ workflow' = Option(buildWorkflow(p.Prompt, p.Width, p.Height, p.Steps,
                                        p.CFG, p.Seed, p.BaiduTranslateAppID,
                                        p.BaiduTranslateAppKey))
    /\ pc' = "built"
    /\ UNCHANGED <<other, c, arg, first, calls, p, now, baseURL, clientID, postURL, postBody, resp,
                   promptID, i, histURL, histResp, pattern, posts,
                   gets, sleeps, imageURL, err>>

(* lines 51-61 *)
\* Faulty variant: the missing base endpoint is reported with a nil error.
ErrBaseURLForgotten == NilError
ErrBaseURLRequired == <<"comfyui base_url is required">>

ClientIDOrDefault(id) == IF id = "" THEN DefaultClientID ELSE id

CheckBase ==
    /\ pc = "built"
    /\ IF c.BaseURL = <<>>
       THEN /\ Return(<<>>, ErrBaseURLRequired)
            /\ UNCHANGED <<baseURL, clientID>>
       ELSE /\ baseURL' = StripSlash(c.BaseURL)
            /\ clientID' = ClientIDOrDefault(c.ClientID)
            /\ pc' = "submit"
            /\ UNCHANGED <<imageURL, err>>
    /\ UNCHANGED <<other, c, arg, first, calls, p, now, workflow, postURL, postBody, resp, promptID, i,
                   histURL, histResp, pattern, posts, gets, sleeps>>

----------------------------------------------------------------------------
(* Remote service: what hc.Do can give back *)

TransportError == [neterr |-> TRUE]

\* A response body: its text, whether it is syntactically valid JSON,
\* whether every value has the type the target expects, and the value the
\* decoder stores in the target (as far as it gets on a type mismatch).
Body(text, syntaxOK, typeOK, value) ==
    [text |-> text, syntaxOK |-> syntaxOK, typeOK |-> typeOK, value |-> value]

Response(code, status, body) ==
    [neterr |-> FALSE, StatusCode |-> code, Status |-> status, Body |-> body]

GoodID == "j"
OtherID == "k"

SubmitResponses ==
    {TransportError,
     Response(500, "500 Internal Server Error", Body("boom", FALSE, FALSE, "")),
     Response(201, "201 Created", Body("{\"prompt_id\":\"j\"}", TRUE, TRUE, GoodID)),
     Response(200, "200 OK", Body("{\"prompt_id\":\"j\"}", TRUE, TRUE, GoodID)),
     Response(200, "200 OK", Body("{\"prompt_id\":\"<ctl>\"}", TRUE, TRUE, CTL)),
     Response(200, "200 OK", Body("{}", TRUE, TRUE, "")),
     Response(200, "200 OK", Body("{\"prompt_id\":7}", TRUE, FALSE, "")),
     Response(200, "200 OK", Body("boom", FALSE, FALSE, ""))}

Image(filename, subfolder, type) ==
    [Filename |-> filename, Subfolder |-> subfolder, Type |-> type]

ImgA == Image("a.png", "", "output")
ImgB == Image("b.png", "tmp", "temp")

ImageLists == {<<>>, <<ImgA>>, <<ImgB, ImgA>>}

StageIDs == {"8", "9"}

\* History entries: any subset of the stages has an output, each output
\* with one of the image lists.
Entries ==
    UNION {[S -> {[Images |-> l] : l \in ImageLists}] : S \in SUBSET StageIDs}

EmptyHistory == <<>>

Histories ==
    {EmptyHistory}
    \cup {(GoodID :> [Outputs |-> o]) : o \in Entries}
    \cup {(OtherID :> [Outputs |-> ("9" :> [Images |-> <<ImgA>>])])}

HistoryBodies ==
    {Body("boom", FALSE, FALSE, EmptyHistory)}
    \cup {Body("{...}", TRUE, t, h) : t \in BOOLEAN, h \in Histories}

HistoryStatus == {<<200, "200 OK">>, <<404, "404 Not Found">>}

PollResponses ==
    {TransportError}
    \cup {Response(st[1], st[2], b) : st \in HistoryStatus, b \in HistoryBodies}

\* json.NewDecoder(body).Decode(&target): a syntax error leaves the target
\* at its zero value; a type mismatch is reported after the rest of the
\* value has been stored.
Decode(body, zero) ==
    [err |-> ~(body.syntaxOK /\ body.typeOK),
     value |-> IF body.syntaxOK THEN body.value ELSE zero]

----------------------------------------------------------------------------
(* Generate, lines 63-95: the submission *)

ErrNewRequest == <<"parse: net/url: invalid control character in URL">>
ErrSubmit == <<"comfyui submit: ", "transport error">>
ErrSubmitStatus(status, text) == <<"comfyui submit ", status, ": ", text>>
ErrDecodeSubmit == <<"comfyui decode submit response: ", "json error">>
ErrNoPromptID == <<"comfyui no prompt_id in response">>

SubmitURL(base) == base \o <<"/prompt">>

\* Faulty variant: the status of the submission response is not looked at.
AcceptAnyStatus(code) == TRUE
StatusAccepted(code) == code = StatusOK

Submit ==
    /\ pc = "submit"
    /\ postBody' = Option([prompt |-> workflow[1], client_id |-> clientID])
    /\ postURL' = Option(SubmitURL(baseURL))
    /\ IF ~NewRequestOK(SubmitURL(baseURL))
       THEN /\ Return(<<>>, ErrNewRequest)
            /\ UNCHANGED <<posts, resp, promptID>>
       ELSE /\ posts' = posts + 1
            /\ \E r \in SubmitResponses :
                 /\ resp' = Option(r)
                 /\ IF r.neterr
                    THEN Return(<<>>, ErrSubmit) /\ UNCHANGED promptID
                    ELSE IF ~StatusAccepted(r.StatusCode)
                    THEN /\ Return(<<>>, ErrSubmitStatus(r.Status, r.Body.text))
                         /\ UNCHANGED promptID
                    ELSE LET submitResp == Decode(r.Body, "")
                         IN  IF submitResp.err
                             THEN Return(<<>>, ErrDecodeSubmit) /\ UNCHANGED promptID
                             ELSE IF submitResp.value = ""
                             THEN Return(<<>>, ErrNoPromptID) /\ UNCHANGED promptID
                             ELSE /\ promptID' = submitResp.value
                                  /\ pc' = "poll"
                                  /\ UNCHANGED <<imageURL, err>>
    /\ UNCHANGED <<other, c, arg, first, calls, p, now, workflow, baseURL, clientID, i, histURL,
                   histResp, pattern, gets, sleeps>>

----------------------------------------------------------------------------
(* Generate, lines 98-129: one iteration of the polling loop *)

\* Faulty variant: the prompt id is left out of the history URL.
HistoryURLWithoutID(base, id) == base \o <<"/history/">>
HistoryURL(base, id) == base \o <<"/history/", id>>

ViewURL(base, img) ==
    base \o <<"/view?filename=", img.Filename, "&subfolder=", img.Subfolder,
              "&type=", img.Type>>

\* The outputs of the entry that the range loop can stop at: map iteration
\* order is unspecified, so any output with an image may come first.
\* Faulty variant: outputs without images are not skipped.
OutputsOfAnyKind(entry) == DOMAIN entry.Outputs
\* Faulty variant: the range loop always stops at the same output.
OutputsInFixedOrder(entry) ==
    LET w == {s \in DOMAIN entry.Outputs : Len(entry.Outputs[s].Images) > 0}
    IN  IF w = {} THEN {} ELSE {CHOOSE s \in w : TRUE}
OutputsWithImages(entry) ==
    {s \in DOMAIN entry.Outputs : Len(entry.Outputs[s].Images) > 0}

\* Faulty variant: the last image is taken instead of the first.
ImageIndexLast(images) == images[Len(images)]
ImageIndex0(images) == images[1]

\* What a poll attempt that did not return had: a transport error, a decode
\* error, no entry for the prompt id, or an entry without any image.
AttemptClass(hr, id) ==
    IF hr.neterr THEN "transport"
    ELSE LET d == Decode(hr.Body, EmptyHistory)
         IN  IF d.err THEN "decode"
             ELSE IF id \notin DOMAIN d.value THEN "missing" ELSE "noimage"

\* "swallowed": transport and decode errors only; "mixed": anything else.
Merge(pat, cls) ==
    IF pat = "none" \/ pat = cls THEN cls
    ELSE IF {pat, cls} \subseteq {"transport", "decode", "swallowed"}
         THEN "swallowed"
         ELSE "mixed"

\* Faulty variant: a failed attempt ends the call instead of being retried.
FailOnError ==
    /\ pc' = "done"
    /\ imageURL' = <<>>
    /\ err' = <<"comfyui poll: ", "attempt failed">>
    /\ UNCHANGED <<i, pattern, histResp>>

\* Faulty variant: break in place of continue, the loop is left at once.
BreakLoop ==
    /\ pc' = "done"
    /\ imageURL' = <<>>
    /\ err' = <<"comfyui timeout waiting for result">>
    /\ UNCHANGED <<i, pattern, histResp>>

\* continue / end of the loop body: i++ and the iteration's locals go away
Continue ==
    /\ i' = i + 1
    /\ pattern' = Merge(pattern, AttemptClass(histResp[1], promptID))
    /\ histResp' = None
    /\ pc' = "poll"
    /\ UNCHANGED <<imageURL, err>>

\* Faulty variant: the loop test is off by one.
PollBudgetOneMore(n) == n <= MaxPolls
PollBudgetLeft(n) == n < MaxPolls

(* lines 98-101: loop test, sleep, request, hc.Do returns *)
PollSend ==
    /\ pc = "poll"
    /\ PollBudgetLeft(i)
    /\ sleeps' = sleeps + 1
    /\ histURL' = Option(HistoryURL(baseURL, promptID))
    /\ IF ~NewRequestOK(HistoryURL(baseURL, promptID))
       THEN \* histReq is nil and hc.Do(histReq) dereferences it
            /\ pc' = "panic"
            /\ UNCHANGED <<gets, histResp>>
       ELSE /\ gets' = gets + 1
            /\ \E hr \in PollResponses : histResp' = Option(hr)
            /\ pc' = "scan"
    /\ UNCHANGED <<other, c, arg, first, calls, p, now, workflow, baseURL, clientID, postURL,
                   postBody, resp, promptID, posts, i, pattern, imageURL, err>>

\* var history after line 114
\* Faulty variant: the body is decoded only when the status is 200.
DecodedHistoryIfOK(hr) ==
    IF hr.StatusCode = StatusOK
    THEN Decode(hr.Body, EmptyHistory).value
    ELSE EmptyHistory
DecodedHistory(hr) == Decode(hr.Body, EmptyHistory).value

(* lines 102-128: the response is examined *)
PollScan ==
    /\ pc = "scan"
    /\ LET hr == histResp[1]
       IN  IF hr.neterr
           THEN Continue
           ELSE LET hist == DecodedHistory(hr)
                IN  IF promptID \notin DOMAIN hist
                    THEN Continue
                    ELSE LET entry == hist[promptID]
                         IN  IF OutputsWithImages(entry) = {}
                             THEN Continue
                             ELSE \E s \in OutputsWithImages(entry) :
                                    /\ Return(ViewURL(baseURL,
                                           ImageIndex0(entry.Outputs[s].Images)),
                                         NilError)
                                    /\ UNCHANGED <<i, pattern, histResp>>
    /\ UNCHANGED <<other, c, arg, first, calls, p, now, workflow, baseURL, clientID, postURL,
                   postBody, resp, promptID, posts, gets, sleeps, histURL>>

(* line 130 *)
\* Faulty variant: the exhausted budget is reported with a nil error.
ErrTimeoutForgotten == NilError
ErrTimeout == <<"comfyui timeout waiting for result">>

Timeout ==
    /\ pc = "poll"
    /\ ~PollBudgetLeft(i)
    /\ Return(<<>>, ErrTimeout)
    /\ UNCHANGED <<other, c, arg, first, calls, p, now, workflow, baseURL, clientID, postURL,
                   postBody, resp, promptID, i, histURL, histResp, pattern,
                   posts, gets, sleeps>>

----------------------------------------------------------------------------
(* The caller calls Generate again with the same client and the same       *)
(* Params object once the previous call has returned.                      *)

MaxCalls == 2

CallAgain ==
    /\ pc = "done"
    /\ calls < MaxCalls
    /\ calls' = calls + 1
    /\ arg' = p
    /\ now' = None
    /\ pc' = "start"
    /\ workflow' = None
    /\ baseURL' = <<>>
    /\ clientID' = ""
    /\ postURL' = None
    /\ postBody' = None
    /\ resp' = None
    /\ promptID' = ""
    /\ i' = 0
    /\ histURL' = None
    /\ histResp' = None
    /\ pattern' = "none"
    /\ posts' = 0
    /\ gets' = 0
    /\ sleeps' = 0
    /\ imageURL' = <<>>
    /\ err' = NilError
    /\ UNCHANGED <<other, c, first, p>>

----------------------------------------------------------------------------

Next ==
    Normalize \/ Build \/ CheckBase \/ Submit \/ PollSend \/ PollScan \/ Timeout

Spec == Init /\ [][Next]_vars

\* The parameter handling alone, over every parameter combination.
NextParams == Normalize \/ Build

SpecParams == InitParams /\ [][NextParams]_vars

----------------------------------------------------------------------------
(* Two overlapping calls of Generate on one client, each with a Params     *)
(* object of its own.  The second call runs the same lines on its own      *)
(* locals; the client's fields are the only memory the two calls share.    *)

\* What the remote service answers the second call: its own job id
\* (OtherID, or one that does not parse), and histories keyed by it.
OtherSubmitResponses ==
    {TransportError,
     Response(500, "500 Internal Server Error", Body("boom", FALSE, FALSE, "")),
     Response(200, "200 OK", Body("{\"prompt_id\":\"k\"}", TRUE, TRUE, OtherID)),
     Response(200, "200 OK", Body("{\"prompt_id\":\"<ctl>\"}", TRUE, TRUE, CTL))}

OtherPollResponses ==
    {TransportError,
     Response(200, "200 OK", Body("{}", TRUE, TRUE, EmptyHistory)),
     Response(200, "200 OK", Body("{...}", TRUE, TRUE,
         (OtherID :> [Outputs |-> ("9" :> [Images |-> <<ImgA>>])])))}

OtherReturn(url, e) ==
    other' = [other EXCEPT !.pc = "done", !.imageURL = url, !.err = e]

(* lines 34-61 of the second call *)
OtherStart ==
    /\ other.pc = "idle"
    /\ IF c.BaseURL = <<>>
       THEN OtherReturn(<<>>, ErrBaseURLRequired)
       ELSE other' = [other EXCEPT !.pc = "submit"]
    /\ UNCHANGED <<c, arg, first, calls, p, now, pc, workflow, baseURL,
                   clientID, postURL, postBody, resp, promptID, i, histURL,
                   histResp, pattern, posts, gets, sleeps, imageURL, err>>

(* lines 63-95 of the second call *)
OtherSubmit ==
    /\ other.pc = "submit"
    /\ IF ~NewRequestOK(SubmitURL(StripSlash(c.BaseURL)))
       THEN OtherReturn(<<>>, ErrNewRequest)
       ELSE \E r \in OtherSubmitResponses :
              IF r.neterr
              THEN other' = [other EXCEPT !.pc = "done", !.posts = 1,
                                          !.err = ErrSubmit]
              ELSE IF ~StatusAccepted(r.StatusCode)
              THEN other' = [other EXCEPT !.pc = "done", !.posts = 1,
                               !.err = ErrSubmitStatus(r.Status, r.Body.text)]
              ELSE LET submitResp == Decode(r.Body, "")
                   IN  IF submitResp.err
                       THEN other' = [other EXCEPT !.pc = "done", !.posts = 1,
                                                   !.err = ErrDecodeSubmit]
                       ELSE IF submitResp.value = ""
                       THEN other' = [other EXCEPT !.pc = "done", !.posts = 1,
                                                   !.err = ErrNoPromptID]
                       ELSE other' = [other EXCEPT !.pc = "poll", !.posts = 1,
                                        !.promptID = submitResp.value]
    /\ UNCHANGED <<c, arg, first, calls, p, now, pc, workflow, baseURL,
                   clientID, postURL, postBody, resp, promptID, i, histURL,
                   histResp, pattern, posts, gets, sleeps, imageURL, err>>

(* lines 98-129 of the second call: one iteration *)
OtherPoll ==
    /\ other.pc = "poll"
    /\ LET url == HistoryURL(StripSlash(c.BaseURL), other.promptID)
       IN  IF ~NewRequestOK(url)
           THEN other' = [other EXCEPT !.pc = "panic", !.histURL = Option(url)]
           ELSE \E hr \in OtherPollResponses :
                  IF hr.neterr \/ other.promptID \notin DOMAIN DecodedHistory(hr)
                  THEN other' = [other EXCEPT !.histURL = Option(url)]
                  ELSE LET entry == DecodedHistory(hr)[other.promptID]
                       IN  IF OutputsWithImages(entry) = {}
                           THEN other' = [other EXCEPT !.histURL = Option(url)]
                           ELSE \E s \in OutputsWithImages(entry) :
                                  other' = [other EXCEPT
                                      !.pc = "done", !.histURL = Option(url),
                                      !.imageURL = ViewURL(StripSlash(c.BaseURL),
                                          ImageIndex0(entry.Outputs[s].Images))]
    /\ UNCHANGED <<c, arg, first, calls, p, now, pc, workflow, baseURL,
                   clientID, postURL, postBody, resp, promptID, i, histURL,
                   histResp, pattern, posts, gets, sleeps, imageURL, err>>

(* line 130 of the second call *)
OtherTimeout ==
    /\ other.pc = "poll"
    /\ other.histURL # None
    /\ OtherReturn(<<>>, ErrTimeout)
    /\ UNCHANGED <<c, arg, first, calls, p, now, pc, workflow, baseURL,
                   clientID, postURL, postBody, resp, promptID, i, histURL,
                   histResp, pattern, posts, gets, sleeps, imageURL, err>>

\* A panic that no caller recovers ends the program, and with it the call
\* running in the other goroutine.
Running(pos) == pos \notin {"idle", "done", "panic", "killed"}

Crash ==
    \/ /\ other.pc = "panic"
       /\ Running(pc)
       /\ pc' = "killed"
       /\ UNCHANGED <<other, c, arg, first, calls, p, now, workflow, baseURL,
                      clientID, postURL, postBody, resp, promptID, i, histURL,
                      histResp, pattern, posts, gets, sleeps, imageURL, err>>
    \/ /\ pc = "panic"
       /\ Running(other.pc)
       /\ other' = [other EXCEPT !.pc = "killed"]
       /\ UNCHANGED <<c, arg, first, calls, p, now, pc, workflow, baseURL,
                      clientID, postURL, postBody, resp, promptID, i, histURL,
                      histResp, pattern, posts, gets, sleeps, imageURL, err>>

TwoCalls == {[c |-> Client(<<"http://h", "/">>, "me"), p |-> ParamsSet]}

InitTwo == (\E call \in TwoCalls : InitWith(call)) /\ other = OtherIdle

NextTwo ==
    \/ Next
    \/ OtherStart \/ OtherSubmit \/ OtherPoll \/ OtherTimeout
    \/ Crash

SpecTwo == InitTwo /\ [][NextTwo]_vars

\* Successive calls on one client with one Params object.
NextAgain == Next \/ CallAgain

SpecAgain == Init /\ [][NextAgain]_vars

----------------------------------------------------------------------------
(* Properties *)

Returned == pc = "done"
Succeeded == Returned /\ err = NilError
TimedOut == Returned /\ err = ErrTimeout

Mentions(message, token) == \E k \in 1..Len(message) : message[k] = token

\* The response of the current poll attempt decodes to an entry for the
\* prompt id in which some output has at least one image.
EntryWithImage(hr, id) ==
    /\ ~hr.neterr
    /\ hr.Body.syntaxOK
    /\ id \in DOMAIN hr.Body.value
    /\ \E s \in DOMAIN hr.Body.value[id].Outputs :
         hr.Body.value[id].Outputs[s].Images # <<>>

\* The URLs built from image 0 of an output of the entry that has images.
FirstImageURLs(base, hr, id) ==
    {base \o <<"/view?filename=", img.Filename, "&subfolder=", img.Subfolder,
               "&type=", img.Type>> :
        img \in {hr.Body.value[id].Outputs[s].Images[1] :
                    s \in {t \in DOMAIN hr.Body.value[id].Outputs :
                              hr.Body.value[id].Outputs[t].Images # <<>>}}}

\* C1: after a submission answered 200 with a non-empty prompt id, a call in
\* which no poll attempt yields an entry with an image ends by returning the
\* timeout error with an empty URL, after exactly 300 poll attempts.
C1_TimeoutAfterExactly300Polls ==
    promptID # "" =>
        \/ pc \in {"poll", "scan"}
        \/ Succeeded
        \/ TimedOut /\ imageURL = <<>> /\ gets = MaxPolls /\ i = MaxPolls

\* C2: at most 300 history GETs are issued, and every attempt that did not
\* return, whatever went wrong in it, used up one of them.
C2_AtMost300Gets ==
    /\ gets <= MaxPolls
    /\ pc = "poll" => gets = i
    /\ pc = "scan" => gets = i + 1
    /\ Returned => gets \in {i, i + 1}

C2_Witness == TimedOut /\ gets = MaxPolls /\ pattern = "swallowed"

\* C3: a submission answered with a status other than 200 ends the call
\* with an error that carries the status and the body text, an empty URL,
\* and no history GET.
C3_Non200SubmissionIsFatal ==
    (resp # None /\ ~resp[1].neterr /\ resp[1].StatusCode # 200) =>
        /\ Returned
        /\ err # NilError
        /\ Mentions(err, resp[1].Status)
        /\ Mentions(err, resp[1].Body.text)
        /\ imageURL = <<>>
        /\ gets = 0
        /\ sleeps = 0

C3_Witness ==
    /\ resp # None
    /\ ~resp[1].neterr
    /\ resp[1].StatusCode = 500
    /\ resp[1].Body.text = "boom"
    /\ Returned

\* C4: the poll attempt whose decoded history has an entry for the prompt id
\* with an image in some output makes Generate return at once, with a nil
\* error and <base>/view?filename=F&subfolder=S&type=T for image 0 of such
\* an output, and no request follows the return.
C4_FirstImageReturnsAtOnce ==
    /\ [][(pc = "scan" /\ EntryWithImage(histResp[1], promptID)) =>
            /\ pc' = "done"
            /\ err' = NilError
            /\ imageURL' \in FirstImageURLs(baseURL, histResp[1], promptID)
            /\ gets' = gets /\ posts' = posts /\ sleeps' = sleeps]_vars
    /\ [][pc = "done" => (gets' = gets /\ posts' = posts /\ pc' = "done")]_vars

C4_Witness ==
    /\ Succeeded
    /\ gets = 3
    /\ imageURL = <<"http://h", "/view?filename=", "a.png", "&subfolder=", "",
                    "&type=", "output">>

\* C5: with an empty base endpoint Generate fails with the configuration
\* error and an empty URL, and never issues a POST or a GET.
C5_EmptyBaseIsConfigurationError ==
    c.BaseURL = <<>> =>
        /\ posts = 0 /\ gets = 0
        /\ postURL = None /\ histURL = None
        /\ pc \in {"start", "normalized", "built", "done"}
        /\ Returned => (err = <<"comfyui base_url is required">> /\ imageURL = <<>>)

C5_Witness == c.BaseURL = <<>> /\ Returned

\* A poll response that the loop swallows as an error: a transport failure
\* or a payload the decoder rejects.
FailedAttempt(hr) == hr.neterr \/ ~(hr.Body.syntaxOK /\ hr.Body.typeOK)

\* C6: a poll attempt that fails in transport or returns an undecodable
\* payload never ends the call with an error; whatever the earlier attempts
\* were, the attempt that has an entry with an image returns its URL with a
\* nil error, up to and including attempt 300.
C6_PollFailuresAreNotFatal ==
    /\ [][(pc = "scan" /\ FailedAttempt(histResp[1])) =>
            /\ err' = NilError
            /\ \/ pc' = "poll" /\ i' = i + 1 /\ imageURL' = <<>>
               \/ pc' = "done" /\ imageURL' # <<>>]_vars
    /\ [][(pc = "scan" /\ EntryWithImage(histResp[1], promptID)) =>
            (pc' = "done" /\ err' = NilError /\ imageURL' # <<>>)]_vars

C6_Witness ==
    /\ Succeeded
    /\ gets = MaxPolls
    /\ pattern = "swallowed"
    /\ imageURL # <<>>

\* C7: a call that returns gives either a non-empty URL with a nil error or
\* an empty URL with a non-nil error, never a URL with an error nor an
\* empty URL with a nil error.
C7_UrlXorError ==
    Returned =>
        \/ imageURL # <<>> /\ err = NilError
        \/ imageURL = <<>> /\ err # NilError

C7_Witness == TimedOut /\ imageURL = <<>> /\ gets = MaxPolls

ConfigurationErrors == {<<"comfyui base_url is required">>}

SubmissionErrors ==
    {ErrNewRequest, ErrSubmit, ErrDecodeSubmit, ErrNoPromptID}
    \cup {ErrSubmitStatus(r.Status, r.Body.text) :
             r \in {x \in SubmitResponses : ~x.neterr}}

\* C8: a call never stops anywhere but in a return, the return is a
\* configuration error, a submission error, a success with a URL or the
\* timeout, and the polling loop never goes beyond its budget.
C8_EndsInOneOfFourOutcomes ==
    /\ Returned \/ ENABLED Next
    /\ Returned =>
          \/ err \in ConfigurationErrors
          \/ err \in SubmissionErrors
          \/ err = NilError /\ imageURL # <<>>
          \/ err = <<"comfyui timeout waiting for result">>
    /\ i <= MaxPolls

AfterNormalize == pc # "start"

SamplerSeed == workflow[1]["15"].inputs.seed

\* C9 as stated: an unset seed becomes a nonzero value below 10^14 whatever
\* the clock reads, and a nonzero seed reaches the sampler unchanged.
C9_SeedNonzeroBelow1e14 ==
    AfterNormalize =>
        /\ IsZero64(arg.Seed) => (~IsZero64(p.Seed) /\ Below1e14(p.Seed))
        /\ ~IsZero64(arg.Seed) => p.Seed = arg.Seed
        /\ pc = "built" => SamplerSeed = [int64 |-> p.Seed]

\* C9 amended: an unset seed becomes the clock reading modulo 10^14, of
\* magnitude below 10^14, which is zero exactly when the reading is a
\* multiple of 10^14 ns; a nonzero seed reaches the sampler unchanged.
C9_SeedFromClockBelow1e14 ==
    AfterNormalize =>
        /\ IsZero64(arg.Seed) =>
              /\ now # None
              /\ p.Seed.hi = 0
              /\ p.Seed.mid = now[1].mid /\ p.Seed.lo = now[1].lo
              /\ IsZero64(p.Seed) \/ p.Seed.sign = now[1].sign
              /\ IsZero64(p.Seed) <=> (now[1].mid = 0 /\ now[1].lo = 0)
        /\ ~IsZero64(arg.Seed) => (p.Seed = arg.Seed /\ now = None)
        /\ pc = "built" => SamplerSeed = [int64 |-> p.Seed]

C9_Witness ==
    /\ pc = "built"
    /\ IsZero64(arg.Seed)
    /\ now = <<I64(1, 17940, 1234567, 7654321)>>
    /\ SamplerSeed = [int64 |-> I64(1, 0, 1234567, 7654321)]

TextEncoderText == workflow[1]["21"].inputs.text

\* C10: without both credentials the graph has no translation stage and the
\* text encoder reads the raw prompt; with both, the text encoder reads
\* output 0 of the translation stage.
C10_TranslationStageOnlyWithCredentials ==
    pc = "built" =>
        IF p.BaiduTranslateAppID # "" /\ p.BaiduTranslateAppKey # ""
        THEN /\ "24" \in DOMAIN workflow[1]
             /\ TextEncoderText = [node |-> "24", out |-> 0]
        ELSE /\ "24" \notin DOMAIN workflow[1]
             /\ TextEncoderText = [str |-> p.Prompt]

\* C11: a call leaves the caller's Params object and the client's fields as
\* they were before it, whether it succeeded, failed or was rejected for an
\* empty base endpoint; so a second call with an object that had Seed 0
\* reads the clock for a fresh seed again.
C11_CallLeavesParamsAndClientUntouched ==
    /\ Returned => p = arg
    /\ calls = 1 => first = arg
    /\ (calls = 2 /\ pc # "start" /\ IsZero64(first.Seed)) => now # None

\* What this call returned follows from the responses to its own requests.
OwnOutcome ==
    /\ posts <= 1
    /\ promptID # "" => posts = 1
    /\ histURL # None => histURL = <<baseURL \o <<"/history/", promptID>>>>
    /\ Succeeded =>
          /\ histResp # None
          /\ imageURL \in FirstImageURLs(baseURL, histResp[1], promptID)
    /\ TimedOut => gets = MaxPolls
    /\ (Returned /\ gets = 0) => (resp = None \/ err # NilError)

OtherOwnOutcome ==
    /\ other.posts <= 1
    /\ other.promptID # "" => other.posts = 1
    /\ other.histURL # None =>
          other.histURL =
              <<StripSlash(c.BaseURL) \o <<"/history/", other.promptID>>>>

\* C12: two overlapping calls on one client each issue their own single
\* POST, poll only the history URL of their own job id, and end as their
\* own responses decide, whatever the other call's job id and responses.
C12_OverlappingCallsAreIndependent ==
    /\ OwnOutcome
    /\ OtherOwnOutcome
    /\ pc # "killed"
    /\ other.pc # "killed"

\* Base endpoints that do not end in a slash.
Stems == {<<"http://h">>, <<"http://h", CTL>>}

\* Every URL the call has built so far starts with the base b.
UrlsBuiltOn(b) ==
    /\ pc \notin {"start", "normalized", "built"} => baseURL = b
    /\ postURL # None => postURL = Option(b \o <<"/prompt">>)
    /\ histURL # None => histURL = Option(b \o <<"/history/", promptID>>)
    /\ Succeeded =>
          \E img \in {ImgA, ImgB} :
              imageURL = b \o <<"/view?filename=", img.Filename,
                                "&subfolder=", img.Subfolder,
                                "&type=", img.Type>>

\* C13: a base endpoint X and the base endpoint X + "/" (X not ending in a
\* slash) give the same submission, history and result URLs, all built on
\* X; a base endpoint X + "//" gives URLs built on X + "/".
C13_TrailingSlashStrippedOnce ==
    \A X \in Stems :
        /\ c.BaseURL \in {X, X \o <<"/">>} => UrlsBuiltOn(X)
        /\ c.BaseURL = X \o <<"/", "/">> => UrlsBuiltOn(X \o <<"/">>)

C13_Witness ==
    /\ c.BaseURL = <<"http://h", "/">>
    /\ Succeeded
    /\ histURL = Option(<<"http://h", "/history/", GoodID>>)

\* A parameter passed as v arrives as w: the default d when v is zero or
\* negative, v itself when v is positive.
Normalized(v, d, w) == (v <= 0 => w = d) /\ (v > 0 => w = v)

LatentImage == workflow[1]["20"].inputs
Sampler == workflow[1]["15"].inputs

\* C14: width, height, steps and guidance scale that are zero or negative
\* are replaced by 1080, 1920, 25 and 1, positive ones are kept, and the
\* latent-image and sampler stages of the graph carry these values.
C14_DefaultsReachTheGraph ==
    pc = "built" =>
        /\ Normalized(arg.Width, DefaultWidth, p.Width)
        /\ Normalized(arg.Height, DefaultHeight, p.Height)
        /\ Normalized(arg.Steps, DefaultSteps, p.Steps)
        /\ Normalized(arg.CFG, DefaultCFG, p.CFG)
        /\ LatentImage.width = [int |-> p.Width]
        /\ LatentImage.height = [int |-> p.Height]
        /\ Sampler.steps = [int |-> p.Steps]
        /\ Sampler.cfg = [float |-> p.CFG]

C14_Witness ==
    /\ pc = "built"
    /\ arg.Width = 0 /\ arg.Height = -1 /\ arg.Steps = 2 /\ arg.CFG = 0
    /\ LatentImage.width = [int |-> 1080]
    /\ LatentImage.height = [int |-> 1920]
    /\ Sampler.steps = [int |-> 2]
    /\ Sampler.cfg = [float |-> 1]

\* The submission was answered 200 with a body that decodes to a non-empty
\* prompt id.
SubmissionAccepted ==
    /\ resp # None
    /\ ~resp[1].neterr
    /\ resp[1].StatusCode = 200
    /\ resp[1].Body.syntaxOK
    /\ resp[1].Body.typeOK
    /\ resp[1].Body.value # ""

RequestsInOrder ==
    /\ posts <= 1
    /\ gets > 0 =>
          posts = 1 /\ SubmissionAccepted /\ promptID = resp[1].Body.value
    /\ histURL # None =>
          /\ SubmissionAccepted
          /\ histURL = Option(baseURL \o <<"/history/", resp[1].Body.value>>)
    /\ (resp # None /\ ~SubmissionAccepted) =>
          /\ Returned
          /\ err # NilError
          /\ imageURL = <<>>
          /\ posts = 1
          /\ gets = 0

RequestStep ==
    /\ posts' # posts => (posts = 0 /\ posts' = 1 /\ gets = 0)
    /\ gets' # gets => (gets' = gets + 1 /\ posts = 1 /\ posts' = 1)

\* C15: a call issues at most one POST, before any GET; it issues a GET only
\* after the POST was answered 200 with a decodable body holding a non-empty
\* job id, and always to <base>/history/<that id>; a submission that fails
\* in transport, in decoding or for a missing id ends the call with an
\* error, without any GET and without a second POST.
C15_OnePostThenGetsOfThatJob == []RequestsInOrder /\ [][RequestStep]_vars

C15_Witness ==
    /\ posts = 1
    /\ gets = 2
    /\ pc = "scan"
    /\ histURL = Option(<<"http://h", "/history/", GoodID>>)

CredentialFields == {"baidu_appid", "baidu_appkey"}

\* The nodes of the graph that have a credential field among their inputs.
NodesWithCredentialField ==
    {n \in DOMAIN workflow[1] :
        CredentialFields \cap DOMAIN workflow[1][n].inputs # {}}

\* The nodes of the graph in which an input holds the string s.
NodesHolding(s) ==
    {n \in DOMAIN workflow[1] :
        \E f \in DOMAIN workflow[1][n].inputs :
            workflow[1][n].inputs[f] = [str |-> s]}

\* C16: the graph holds the app id and the app key, as the two credential
\* inputs of the translation node, only when both are non-empty; with none
\* or exactly one of them supplied no node has a credential field and no
\* input holds a credential.
C16_CredentialsOnlyWhenBothGiven ==
    pc = "built" =>
        IF p.BaiduTranslateAppID # "" /\ p.BaiduTranslateAppKey # ""
        THEN /\ NodesWithCredentialField = {"24"}
             /\ workflow[1]["24"].inputs.baidu_appid =
                    [str |-> p.BaiduTranslateAppID]
             /\ workflow[1]["24"].inputs.baidu_appkey =
                    [str |-> p.BaiduTranslateAppKey]
        ELSE /\ NodesWithCredentialField = {}
             /\ p.BaiduTranslateAppID # "" =>
                    NodesHolding(p.BaiduTranslateAppID) = {}
             /\ p.BaiduTranslateAppKey # "" =>
                    NodesHolding(p.BaiduTranslateAppKey) = {}

C16_Witness ==
    /\ pc = "built"
    /\ p.BaiduTranslateAppID = "appid"
    /\ p.BaiduTranslateAppKey = ""
    /\ DOMAIN workflow[1]["24"].inputs = {"from_translate", "to_translate", "text"}

\* The outputs with at least one image in the entry that the response of
\* the current poll attempt holds for the prompt id.
StagesWithImages ==
    {s \in DOMAIN histResp[1].Body.value[promptID].Outputs :
        histResp[1].Body.value[promptID].Outputs[s].Images # <<>>}

\* The URL of image 0 of output s of that entry.
UrlOfStage(s) ==
    LET img == histResp[1].Body.value[promptID].Outputs[s].Images[1]
    IN  baseURL \o <<"/view?filename=", img.Filename,
                     "&subfolder=", img.Subfolder, "&type=", img.Type>>

\* C17: the URL returned is that of image 0 of an output of the entry that
\* has images; each such output can be the one taken; with exactly one
\* such output the URL is the one of that output.
C17_ImageZeroOfSomeOutputWithImages ==
    /\ Succeeded => \E s \in StagesWithImages : imageURL = UrlOfStage(s)
    /\ (Succeeded /\ Cardinality(StagesWithImages) = 1) =>
          \A s \in StagesWithImages : imageURL = UrlOfStage(s)
    /\ (pc = "scan" /\ EntryWithImage(histResp[1], promptID)) =>
          \A s \in StagesWithImages :
              ENABLED (PollScan /\ imageURL' = UrlOfStage(s))

C17_Witness ==
    /\ Succeeded
    /\ histResp[1].Body.value[promptID].Outputs =
           ("8" :> [Images |-> <<ImgA>>]) @@ ("9" :> [Images |-> <<ImgB, ImgA>>])
    /\ imageURL = <<"http://h", "/view?filename=", "b.png", "&subfolder=", "tmp",
                    "&type=", "temp">>

\* The response decodes to a history without an entry for the prompt id.
EntryMissing(hr, id) ==
    /\ ~hr.neterr
    /\ hr.Body.syntaxOK
    /\ id \notin DOMAIN hr.Body.value

\* The response decodes to an entry for the prompt id that has no outputs
\* or only outputs with empty image lists.
EntryWithoutImage(hr, id) ==
    /\ ~hr.neterr
    /\ hr.Body.syntaxOK
    /\ id \in DOMAIN hr.Body.value
    /\ \A s \in DOMAIN hr.Body.value[id].Outputs :
         hr.Body.value[id].Outputs[s].Images = <<>>

\* The attempt is over without a result: the loop goes on to its next
\* iteration and nothing is returned or requested.
NextAttempt ==
    /\ pc' = "poll"
    /\ i' = i + 1
    /\ imageURL' = <<>>
    /\ err' = NilError
    /\ gets' = gets /\ posts' = posts /\ sleeps' = sleeps

\* C18: an entry for the job id without outputs, or with empty image lists
\* only, ends the attempt the way a missing entry does, with neither an
\* error nor a result, and the loop goes on; when every one of the 300
\* attempts ended like that, the call returns the timeout error.
C18_EntryWithoutImagesIsNotReady ==
    /\ [][(pc = "scan" /\ EntryWithoutImage(histResp[1], promptID)) =>
              NextAttempt]_vars
    /\ [][(pc = "scan" /\ EntryMissing(histResp[1], promptID)) =>
              NextAttempt]_vars
    /\ [][(pc = "poll" /\ pattern = "noimage" /\ i = MaxPolls) =>
              /\ gets = MaxPolls
              /\ pc' = "done"
              /\ err' = <<"comfyui timeout waiting for result">>
              /\ imageURL' = <<>>
              /\ gets' = gets]_vars
    /\ [](pattern = "noimage" /\ Returned /\ ~Succeeded =>
              TimedOut /\ gets = MaxPolls)

C18_Witness ==
    /\ TimedOut
    /\ pattern = "noimage"
    /\ i = MaxPolls
    /\ gets = MaxPolls

\* The current poll attempt was answered with a status other than 200.
AnsweredNot200 ==
    /\ pc = "scan"
    /\ ~histResp[1].neterr
    /\ histResp[1].StatusCode # 200

\* C19: the status of a history response is not looked at: a response with
\* a status other than 200 whose body decodes to an entry for the job id
\* with an image makes the call return the URL with a nil error, and one
\* whose body gives no such entry ends the attempt as not ready.
C19_HistoryStatusIsIgnored ==
    /\ [][(AnsweredNot200 /\ EntryWithImage(histResp[1], promptID)) =>
              /\ pc' = "done"
              /\ err' = NilError
              /\ \E s \in StagesWithImages : imageURL' = UrlOfStage(s)]_vars
    /\ [][(AnsweredNot200 /\ ~EntryWithImage(histResp[1], promptID)) =>
              NextAttempt]_vars

C19_Witness ==
    /\ Succeeded
    /\ histResp[1].StatusCode = 404
    /\ histResp[1].Status = "404 Not Found"
    /\ imageURL # <<>>

\* C20: the number of sleeps made equals the number of GETs issued, 300 of
\* each when the call times out, and a call that was given a job id returns
\* only after at least one sleep.
C20_OneSleepBeforeEveryGet ==
    /\ sleeps = gets
    /\ TimedOut => sleeps = MaxPolls
    /\ (Returned /\ promptID # "") => sleeps >= 1

====
